---- MODULE Spec2Model ----
(***************************************************************************)
(* Model of delxian/raycasting-sandbox: the ray marcher (CastingRay), the *)
(* ray fan (Raycaster) and the movement resolver (Player.move).            *)
(*                                                                         *)
(* Floats are fixed-point integers with round-to-nearest:                  *)
(*   distances and cell fractions   DistScale units per 1.0                *)
(*   positions                      PosScale units per pixel               *)
(*   heading components             HeadingScale units per 1.0             *)
(* Headings are the exactly representable unit vectors: the four axis      *)
(* headings and the 3-4-5 headings (+-3/5, +-4/5), (+-4/5, +-3/5).         *)
(* cells.py and directions.py are not part of the sources at hand: the     *)
(* grid interface (split_position, get_enter_side, get_cell, in_bounds,    *)
(* portal_transform) and MovementCombo.resolved follow the written         *)
(* specification of that interface.                                        *)
(***************************************************************************)
EXTENDS Integers, Sequences, FiniteSets, TLC

VARIABLES
    cell_map,            \* which CellMap the objects were built with
    \* ---- CastingRay
    direction, visible_distance, total_distance, segment_distance,
    segments, points, start_position, end_position,
    pc,                  \* "idle" | "march" | "shrink" | "done"
    adjusted_distance,   \* take_step's local in the out-of-bounds loop
    looked,              \* cells handed to get_cell by the last step
    event,               \* what the last loop iteration did
    seen,                \* loop-head states this cast has already been in
    \* ---- Player
    position, facing, tick, moved,
    \* ---- Raycaster
    fov, ray_count, ray_data, calls, last_call

rayVars == <<direction, visible_distance, total_distance, segment_distance,
             segments, points, start_position, end_position, pc,
             adjusted_distance, looked, event, seen>>
playerVars == <<position, facing, tick, moved>>
fanVars == <<fov, ray_count, ray_data, calls, last_call>>
vars == <<cell_map, rayVars, playerVars, fanVars>>

----------------------------------------------------------------------------
(* Number representation *)

DistScale == 5000
PosScale == 1000
HeadingScale == 5
SquareSize == 5
CellUnits == SquareSize * PosScale

\* Player.radius, in pixels
Radius == 1

\* a / b rounded to the nearest integer (b > 0)
RoundDiv(a, b) == (2 * a + b) \div (2 * b)

Min(a, b) == IF a <= b THEN a ELSE b
Max(a, b) == IF a >= b THEN a ELSE b
Inf == 1000000000

VAdd(p, q) == <<p[1] + q[1], p[2] + q[2]>>

Headings ==
    {<<5, 0>>, <<-5, 0>>, <<0, 5>>, <<0, -5>>} \cup
    {<<a, b>> : a \in {3, -3}, b \in {4, -4}} \cup
    {<<a, b>> : a \in {4, -4}, b \in {3, -3}}

----------------------------------------------------------------------------
(* Bounds of the checked instances *)

MaxVisible == 5
MaxTicks == 2
MaxRayCount == 4
MaxCalls == 2
MaxFanVisible == 2

----------------------------------------------------------------------------
(* Directions and blocks *)

Sides == {"UP", "RIGHT", "DOWN", "LEFT"}

ADJACENT_OFFSETS ==
    [s \in Sides |->
        CASE s = "UP" -> <<0, -1>>
          [] s = "RIGHT" -> <<1, 0>>
          [] s = "DOWN" -> <<0, 1>>
          [] s = "LEFT" -> <<-1, 0>>]

None == <<>>
NoLinks == [s \in Sides |-> None]

Empty == [kind |-> "empty", sides |-> {}, links |-> NoLinks]
WallNormal == [kind |-> "NORMAL", sides |-> {}, links |-> NoLinks]
WallBorder == [kind |-> "BORDER", sides |-> {}, links |-> NoLinks]
Mirror(sides) == [kind |-> "mirror", sides |-> sides, links |-> NoLinks]
Portal(links) == [kind |-> "portal", sides |-> {}, links |-> links]

\* truthiness of a cell's type_: only the empty cell (False) is falsy
Truthy(type_) == type_.kind # "empty"

----------------------------------------------------------------------------
(* The maps *)

MapCols == 6
MapRows == 6

Maps == {"open", "ring", "mirrors", "portals", "corner"}

Link(s, target) == [NoLinks EXCEPT ![s] = target]

MapCell(m, c) ==
    CASE m = "open" -> Empty
      [] m = "ring" ->
            IF c[1] \in {0, 5} \/ c[2] \in {0, 5} THEN WallNormal ELSE Empty
      [] m = "mirrors" ->
            CASE c = <<3, 2>> -> Mirror(Sides)
              [] c = <<3, 1>> -> WallNormal
              [] c = <<1, 4>> -> Mirror({"UP"})
              [] c = <<5, 0>> -> Mirror({"LEFT", "DOWN"})
              [] c = <<0, 2>> -> WallNormal
              [] OTHER -> Empty
      [] m = "portals" ->
            CASE c = <<1, 2>> -> Portal(Link("LEFT", <<4, 2, "RIGHT">>))
              [] c = <<4, 2>> ->
                    Portal([NoLinks EXCEPT !["RIGHT"] = <<1, 2, "LEFT">>,
                                           !["UP"] = <<2, 4, "RIGHT">>])
              [] c = <<2, 4>> -> Portal(Link("RIGHT", <<4, 2, "UP">>))
              [] c = <<3, 4>> -> Mirror({"LEFT"})
              [] OTHER -> Empty
      [] m = "corner" ->
            CASE c = <<0, 0>> -> Portal(Link("UP", <<3, 3, "RIGHT">>))
              [] c = <<3, 3>> -> Portal(Link("RIGHT", <<0, 0, "UP">>))
              [] OTHER -> Empty

----------------------------------------------------------------------------
(* Grid interface *)

InRange(c) == c[1] >= 0 /\ c[1] < MapCols /\ c[2] >= 0 /\ c[2] < MapRows

get_cell(m, c) == IF InRange(c) THEN MapCell(m, c) ELSE WallBorder

in_bounds(p) ==
    /\ 0 <= p[1] /\ p[1] < MapCols * CellUnits
    /\ 0 <= p[2] /\ p[2] < MapRows * CellUnits

split_position(p) ==
    [cell |-> <<p[1] \div CellUnits, p[2] \div CellUnits>>,
     cell_pos |-> <<RoundDiv((p[1] % CellUnits) * DistScale, CellUnits),
                    RoundDiv((p[2] % CellUnits) * DistScale, CellUnits)>>]

\* the face the heading crosses into the cell through: the nearest of the
\* faces the heading moves away from (horizontal face on a tie)
get_enter_side(cell_pos, dir) ==
    LET hx == IF dir[1] > 0 THEN cell_pos[1]
              ELSE IF dir[1] < 0 THEN DistScale - cell_pos[1] ELSE Inf
        hy == IF dir[2] > 0 THEN cell_pos[2]
              ELSE IF dir[2] < 0 THEN DistScale - cell_pos[2] ELSE Inf
    IN  IF hx <= hy
        THEN (IF dir[1] > 0 THEN "LEFT" ELSE "RIGHT")
        ELSE (IF dir[2] > 0 THEN "UP" ELSE "DOWN")

\* quarter turns, in the handedness of Vector2.rotate (y grows downwards)
Rot(v, q) ==
    CASE q = 0 -> v
      [] q = 1 -> <<-v[2], v[1]>>
      [] q = 2 -> <<-v[1], -v[2]>>
      [] q = 3 -> <<v[2], -v[1]>>

QuarterOf(v) ==
    CASE v = <<1, 0>> -> 0
      [] v = <<0, 1>> -> 1
      [] v = <<-1, 0>> -> 2
      [] v = <<0, -1>> -> 3

\* quarter turns from "into the cell through side s" to "out of side t"
LinkTurn(s, t) ==
    (QuarterOf(ADJACENT_OFFSETS[t]) + 4
        - QuarterOf(Rot(ADJACENT_OFFSETS[s], 2))) % 4

Linked(m, p, dir) ==
    LET sp == split_position(p)
    IN  get_cell(m, sp.cell).links[get_enter_side(sp.cell_pos, dir)] # None

\* position and heading on the far side of the link of the side entered
portal_transform(m, p, dir) ==
    LET sp == split_position(p)
        side == get_enter_side(sp.cell_pos, dir)
        link == get_cell(m, sp.cell).links[side]
        q == LinkTurn(side, link[3])
        half == CellUnits \div 2
        off == Rot(<<(p[1] % CellUnits) - half, (p[2] % CellUnits) - half>>, q)
        out == ADJACENT_OFFSETS[link[3]]
    IN  [position |-> <<(link[1] + out[1]) * CellUnits + off[1] + half,
                        (link[2] + out[2]) * CellUnits + off[2] + half>>,
         heading |-> Rot(dir, q)]

----------------------------------------------------------------------------
(* CastingRay *)

\* 0.001, the extra distance of a step against an axis
Epsilon == DistScale \div 1000

\* direction * 0.05 in position units: the nudge after a portal
Nudge(dir) == <<RoundDiv(dir[1] * PosScale, 20 * HeadingScale),
                RoundDiv(dir[2] * PosScale, 20 * HeadingScale)>>

RaySegment(start_pos, end_pos, distance, end_type) ==
    [start_pos |-> start_pos, end_pos |-> end_pos,
     distance |-> distance, end_type |-> end_type]

\* the extra distance added whatever the sign of the component
step_to_edge_always(cell_pos, dir) ==
    LET step_x == IF dir[1] > 0
                  THEN RoundDiv((DistScale - cell_pos[1]) * HeadingScale, dir[1])
                            + DistScale \div 1000
                  ELSE IF dir[1] < 0
                  THEN RoundDiv(cell_pos[1] * HeadingScale, -dir[1])
                            + DistScale \div 1000
                  ELSE Inf
        step_y == IF dir[2] > 0
                  THEN RoundDiv((DistScale - cell_pos[2]) * HeadingScale, dir[2])
                            + DistScale \div 1000
                  ELSE IF dir[2] < 0
                  THEN RoundDiv(cell_pos[2] * HeadingScale, -dir[2])
                            + DistScale \div 1000
                  ELSE Inf
    IN  Min(step_x, step_y)

step_to_edge(cell_pos, dir) ==
    LET step_x == IF dir[1] > 0
                  THEN RoundDiv((DistScale - cell_pos[1]) * HeadingScale, dir[1])
                  ELSE IF dir[1] < 0
                  THEN RoundDiv(cell_pos[1] * HeadingScale, -dir[1]) + Epsilon
                  ELSE Inf
        step_y == IF dir[2] > 0
                  THEN RoundDiv((DistScale - cell_pos[2]) * HeadingScale, dir[2])
                  ELSE IF dir[2] < 0
                  THEN RoundDiv(cell_pos[2] * HeadingScale, -dir[2]) + Epsilon
                  ELSE Inf
    IN  Min(step_x, step_y)

\* direction * distance * square_size, in position units
position_step(dir, distance) ==
    <<RoundDiv(dir[1] * distance * SquareSize * PosScale, HeadingScale * DistScale),
      RoundDiv(dir[2] * distance * SquareSize * PosScale, HeadingScale * DistScale)>>

\* the neighbour mirror_reflect looks at
Adjacent(cell, enter_side) == VAdd(cell, ADJACENT_OFFSETS[enter_side])

\* the two neighbour cases exchanged
mirror_reflect_exchanged(m, dir, cell, enter_side) ==
    IF ~Truthy(get_cell(m, Adjacent(cell, enter_side)))
    THEN (IF enter_side \in {"LEFT", "RIGHT"}
          THEN <<dir[1], -dir[2]>> ELSE <<-dir[1], dir[2]>>)
    ELSE (IF enter_side \in {"LEFT", "RIGHT"}
          THEN <<-dir[1], dir[2]>> ELSE <<dir[1], -dir[2]>>)

mirror_reflect(m, dir, cell, enter_side) ==
    IF Truthy(get_cell(m, Adjacent(cell, enter_side)))
    THEN (IF enter_side \in {"LEFT", "RIGHT"}
          THEN <<dir[1], -dir[2]>> ELSE <<-dir[1], dir[2]>>)
    ELSE (IF enter_side \in {"LEFT", "RIGHT"}
          THEN <<-dir[1], dir[2]>> ELSE <<dir[1], -dir[2]>>)

\* a reflecting mirror answered with "continue"
handle_type_skip(cell_type, enter_side) ==
    CASE cell_type.kind = "NORMAL" -> "break"
      [] cell_type.kind = "mirror" ->
            IF enter_side \notin cell_type.sides THEN "break" ELSE "continue"
      [] cell_type.kind = "portal" ->
            IF cell_type.links[enter_side] = None THEN "break" ELSE "continue"
      [] OTHER -> ""

\* what handle_type returns to cast()
handle_type(cell_type, enter_side) ==
    CASE cell_type.kind = "NORMAL" -> "break"
      [] cell_type.kind = "mirror" ->
            IF enter_side \notin cell_type.sides THEN "break" ELSE ""
      [] cell_type.kind = "portal" ->
            IF cell_type.links[enter_side] = None THEN "break" ELSE "continue"
      [] OTHER -> ""

\* the segment after a mirror keeps the start of the one before it
MirrorSegmentStart_kept(start, end) == start

\* the start of the segment that follows a mirror: line 117
MirrorSegmentStart(start, end) == end

\* the whole budget taken as the step that is left
ShortenToMaximum_whole(visible, total) == visible

\* the step left when the candidate total exceeds the budget: line 81
ShortenToMaximum(visible, total) == visible - total

\* the locals of one pass of cast()'s loop
Here == split_position(end_position)
HereType == get_cell(cell_map, Here.cell)
HereSide == get_enter_side(Here.cell_pos, direction)
LoopHead == <<end_position, direction, total_distance>>

Event(kind, side, occupied) ==
    [kind |-> kind, side |-> side, occupied |-> occupied,
     old_direction |-> direction, old_end |-> end_position,
     old_total |-> total_distance]

\* an action of the loop body runs at the loop head; a loop head the cast
\* has been at before with the same position, heading and distance repeats
\* what followed it, and the model stops there
AtLoopHead == pc = "march" /\ LoopHead \notin seen

\* the ray after add_segment_and_point(end_type)
Closed(end_type) ==
    [segments |-> Append(segments, RaySegment(start_position, end_position,
                                              segment_distance, end_type)),
     points |-> points \o <<end_position, end_position>>]

\* the end of take_step's shortened step: lines 93-97
FinishStep(dir, start, end, segd, segs, pts, adjusted, end_type) ==
    LET last == VAdd(end, position_step(dir, adjusted))
    IN  /\ end_position' = last
        /\ total_distance' = total_distance + adjusted
        /\ segment_distance' = segd + adjusted
        /\ segments' = Append(segs, RaySegment(start, last, segd + adjusted, end_type))
        /\ points' = Append(pts, last)
        /\ direction' = dir
        /\ start_position' = start
        /\ pc' = "done"

\* take_step(cell_pos) on a ray that handle_type left with these fields
take_step(dir, start, end, segd, segs, pts) ==
    LET step_distance == step_to_edge(Here.cell_pos, dir)
        new_position == VAdd(end, position_step(dir, step_distance))
        new_total_distance == total_distance + step_distance
    IN  IF new_total_distance > visible_distance * DistScale
        THEN /\ FinishStep(dir, start, end, segd, segs, pts,
                           ShortenToMaximum(visible_distance * DistScale,
                                            total_distance),
                           "EXHAUSTED")
             /\ UNCHANGED adjusted_distance
        ELSE IF ~in_bounds(new_position)
        THEN /\ adjusted_distance' = step_distance
             /\ pc' = "shrink"
             /\ direction' = dir
             /\ start_position' = start
             /\ end_position' = end
             /\ segment_distance' = segd
             /\ segments' = segs
             /\ points' = pts
             /\ UNCHANGED total_distance
        ELSE /\ end_position' = new_position
             /\ total_distance' = new_total_distance
             /\ segment_distance' = segd + step_distance
             /\ direction' = dir
             /\ start_position' = start
             /\ segments' = segs
             /\ points' = pts
             /\ pc' = "march"
             /\ UNCHANGED adjusted_distance

\* the rest of the pass once handle_type has returned: lines 62-69
AfterHandle(ret, dir, start, end, segd, segs, pts) ==
    IF ret = ""
    THEN take_step(dir, start, end, segd, segs, pts)
    ELSE /\ pc' = (IF ret = "break" THEN "done" ELSE "march")
         /\ direction' = dir
         /\ start_position' = start
         /\ end_position' = end
         /\ segment_distance' = segd
         /\ segments' = segs
         /\ points' = pts
         /\ UNCHANGED <<total_distance, adjusted_distance>>

\* case Wall.NORMAL
HitWall ==
    /\ AtLoopHead
    /\ HereType.kind = "NORMAL"
    /\ AfterHandle(handle_type(HereType, HereSide), direction, start_position,
                   end_position, segment_distance,
                   Closed("NORMAL").segments, Closed("NORMAL").points)
    /\ looked' = {Here.cell}
    /\ event' = Event("wall", HereSide, FALSE)
    /\ seen' = seen \cup {LoopHead}
    /\ UNCHANGED <<cell_map, visible_distance, playerVars, fanVars>>

\* case Mirror(), entered through a side that does not reflect
MirrorAsWall ==
    /\ AtLoopHead
    /\ HereType.kind = "mirror"
    /\ HereSide \notin HereType.sides
    /\ AfterHandle(handle_type(HereType, HereSide), direction, start_position,
                   end_position, segment_distance,
                   Closed("NORMAL").segments, Closed("NORMAL").points)
    /\ looked' = {Here.cell}
    /\ event' = Event("mirror_wall", HereSide, FALSE)
    /\ seen' = seen \cup {LoopHead}
    /\ UNCHANGED <<cell_map, visible_distance, playerVars, fanVars>>

\* case Mirror(), reflecting
MirrorReflect ==
    /\ AtLoopHead
    /\ HereType.kind = "mirror"
    /\ HereSide \in HereType.sides
    /\ AfterHandle(handle_type(HereType, HereSide),
                   mirror_reflect(cell_map, direction, Here.cell, HereSide),
                   MirrorSegmentStart(start_position, end_position),
                   end_position, 0,
                   Closed("MIRROR").segments, Closed("MIRROR").points)
    /\ looked' = {Here.cell, Adjacent(Here.cell, HereSide)}
    /\ event' = Event("mirror", HereSide,
                      Truthy(get_cell(cell_map, Adjacent(Here.cell, HereSide))))
    /\ seen' = seen \cup {LoopHead}
    /\ UNCHANGED <<cell_map, visible_distance, playerVars, fanVars>>

\* case Portal(), entered through a side without a link
PortalAsWall ==
    /\ AtLoopHead
    /\ HereType.kind = "portal"
    /\ HereType.links[HereSide] = None
    /\ AfterHandle(handle_type(HereType, HereSide), direction, start_position,
                   end_position, segment_distance,
                   Closed("NORMAL").segments, Closed("NORMAL").points)
    /\ looked' = {Here.cell}
    /\ event' = Event("portal_wall", HereSide, FALSE)
    /\ seen' = seen \cup {LoopHead}
    /\ UNCHANGED <<cell_map, visible_distance, playerVars, fanVars>>

\* case Portal(), linked
PortalTeleport ==
    /\ AtLoopHead
    /\ HereType.kind = "portal"
    /\ HereType.links[HereSide] # None
    /\ LET t == portal_transform(cell_map, end_position, direction)
           start == VAdd(t.position, Nudge(t.heading))
       IN  AfterHandle(handle_type(HereType, HereSide), t.heading, start, start, 0,
                       Closed("PORTAL").segments, Closed("PORTAL").points)
    /\ looked' = {Here.cell}
    /\ event' = Event("portal", HereSide, FALSE)
    /\ seen' = seen \cup {LoopHead}
    /\ UNCHANGED <<cell_map, visible_distance, playerVars, fanVars>>

\* no case matches (an empty cell, or the border cell of a lookup off the map)
Advance ==
    /\ AtLoopHead
    /\ HereType.kind \in {"empty", "BORDER"}
    /\ AfterHandle(handle_type(HereType, HereSide), direction, start_position,
                   end_position, segment_distance, segments,
                   Append(points, end_position))
    /\ looked' = {Here.cell}
    /\ event' = Event("step", HereSide, FALSE)
    /\ seen' = seen \cup {LoopHead}
    /\ UNCHANGED <<cell_map, visible_distance, playerVars, fanVars>>

\* adjusted_distance *= 0.99.  A product below one unit is kept as 0, which
\* stands for a positive distance too small to represent: the float product
\* never becomes zero
Shrunk(adjusted) == (adjusted * 99) \div 100

\* in_bounds(end_position + position_step(adjusted)); for an adjusted distance
\* below one unit the step only leaves the side of the position it is on
SafeInBounds(end, dir, adjusted) ==
    IF adjusted > 0
    THEN in_bounds(VAdd(end, position_step(dir, adjusted)))
    ELSE /\ in_bounds(end)
         /\ dir[1] < 0 => end[1] > 0
         /\ dir[2] < 0 => end[2] > 0

\* one pass of the loop of lines 86-91 that ends it, then lines 92-97
ShrinkExit ==
    /\ pc = "shrink"
    /\ SafeInBounds(end_position, direction, Shrunk(adjusted_distance))
    /\ adjusted_distance' = Shrunk(adjusted_distance)
    /\ FinishStep(direction, start_position, end_position, segment_distance,
                  segments, points, Shrunk(adjusted_distance), "BORDER")
    /\ event' = Event("border", event.side, FALSE)
    /\ UNCHANGED <<cell_map, visible_distance, looked, seen, playerVars, fanVars>>

\* one pass of the loop of lines 86-91 that stays in it
ShrinkAgain ==
    /\ pc = "shrink"
    /\ ~SafeInBounds(end_position, direction, Shrunk(adjusted_distance))
    /\ adjusted_distance' = Shrunk(adjusted_distance)
    /\ UNCHANGED <<cell_map, direction, visible_distance, total_distance,
                   segment_distance, segments, points, start_position,
                   end_position, pc, looked, event, seen, playerVars, fanVars>>

RayNext ==
    \/ HitWall
    \/ MirrorAsWall
    \/ MirrorReflect
    \/ PortalAsWall
    \/ PortalTeleport
    \/ Advance
    \/ ShrinkExit
    \/ ShrinkAgain

----------------------------------------------------------------------------
(* Player.move *)

SPEED_MULTIPLIER == 3

Keys == {"w", "a", "s", "d"}

\* DIRECTION_BINDS: the MovementCombo bit of a key
DIRECTION_BINDS ==
    [k \in Keys |->
        CASE k = "w" -> "FORWARD"
          [] k = "a" -> "LEFT"
          [] k = "s" -> "BACKWARD"
          [] k = "d" -> "RIGHT"]

\* MovementCombo.resolved(): opposite bits cancel
resolved(combo) ==
    (combo \ (IF {"FORWARD", "BACKWARD"} \subseteq combo
              THEN {"FORWARD", "BACKWARD"} ELSE {}))
          \ (IF {"LEFT", "RIGHT"} \subseteq combo THEN {"LEFT", "RIGHT"} ELSE {})

\* MOVEMENT_ANGLES.get(combo, 0), in degrees
MOVEMENT_ANGLES(combo) ==
    CASE combo = {"FORWARD"} -> 0
      [] combo = {"FORWARD", "RIGHT"} -> 45
      [] combo = {"RIGHT"} -> 90
      [] combo = {"BACKWARD", "RIGHT"} -> 135
      [] combo = {"BACKWARD"} -> 180
      [] combo = {"BACKWARD", "LEFT"} -> 225
      [] combo = {"LEFT"} -> 270
      [] combo = {"FORWARD", "LEFT"} -> 315
      [] OTHER -> 0

TrigScale == 10000
Cos(angle) ==
    CASE angle \in {0} -> 10000
      [] angle \in {45, 315} -> 7071
      [] angle \in {90, 270} -> 0
      [] angle \in {135, 225} -> -7071
      [] angle \in {180} -> -10000
Sin(angle) == Cos((angle + 270) % 360)

\* direction.rotate(angle) * multiplier, in position units
Displacement(dir, angle, multiplier) ==
    <<RoundDiv((dir[1] * Cos(angle) - dir[2] * Sin(angle)) * multiplier * PosScale,
               HeadingScale * TrigScale),
      RoundDiv((dir[1] * Sin(angle) + dir[2] * Cos(angle)) * multiplier * PosScale,
               HeadingScale * TrigScale)>>

\* int(v // square_size)
CellIndex(v) == v \div CellUnits

clamp(v, lo, hi) == Max(lo, Min(v, hi))

\* the end of move(): lines 101-105
KeepInBounds(p, radius) ==
    <<clamp(p[1], radius * PosScale, (MapCols * SquareSize - radius) * PosScale),
      clamp(p[2], radius * PosScale, (MapRows * SquareSize - radius) * PosScale)>>

\* the column taken from the position the tick started with
new_y_cell_stale(x_after, x_before, new_y) == <<CellIndex(x_before), CellIndex(new_y)>>

\* the cell tested for the Y-only move: lines 94-95
new_y_cell(x_after, x_before, new_y) == <<CellIndex(x_after), CellIndex(new_y)>>

\* the test that sends move() into the teleport: lines 84-85
EntersPortal(m, current_cell, new_cell) ==
    /\ get_cell(m, new_cell).kind = "portal"
    /\ get_cell(m, current_cell).kind = "empty"

\* what the last move() did: the cells it looked up, the cells of the
\* position before and of the candidate position, the cells tested for the
\* two single-axis moves and whether each was committed
Moved(kind, cells, l, x_cell, y_cell, x_ok, y_ok, linked) ==
    [kind |-> kind, cells |-> cells,
     old_cell |-> l.current_cell, new_cell |-> l.new_cell,
     x_cell |-> x_cell, y_cell |-> y_cell,
     x_ok |-> x_ok, y_ok |-> y_ok, linked |-> linked]

NoCell == <<0, 0>>
NoMove == [kind |-> "none", cells |-> {}, old_cell |-> NoCell, new_cell |-> NoCell,
           x_cell |-> NoCell, y_cell |-> NoCell,
           x_ok |-> FALSE, y_ok |-> FALSE, linked |-> FALSE]

Running == tick < MaxTicks /\ moved.kind # "crashed"

\* no movement key is left after resolved(): only the clamp runs
MoveNone(keys) ==
    /\ Running
    /\ resolved({DIRECTION_BINDS[k] : k \in keys}) = {}
    /\ position' = KeepInBounds(position, Radius)
    /\ moved' = [NoMove EXCEPT !.kind = "idle"]
    /\ tick' = tick + 1
    /\ UNCHANGED <<cell_map, facing, rayVars, fanVars>>

\* the locals of move(): lines 74-81
Locals(keys, shift) ==
    LET combo == resolved({DIRECTION_BINDS[k] : k \in keys})
        multiplier == IF shift THEN SPEED_MULTIPLIER ELSE 1
        new_position == VAdd(position,
                             Displacement(facing, MOVEMENT_ANGLES(combo), multiplier))
    IN  [combo |-> combo,
         new_position |-> new_position,
         current_cell |-> <<CellIndex(position[1]), CellIndex(position[2])>>,
         new_cell |-> <<CellIndex(new_position[1]), CellIndex(new_position[2])>>]

\* "moving from empty cell to portal cell": lines 84-87, through a linked side
MoveTeleport(keys, shift) ==
    LET l == Locals(keys, shift)
        t == portal_transform(cell_map, l.new_position, facing)
    IN  /\ Running
        /\ l.combo # {}
        /\ EntersPortal(cell_map, l.current_cell, l.new_cell)
        /\ Linked(cell_map, l.new_position, facing)
        /\ position' = KeepInBounds(t.position, Radius)
        /\ facing' = t.heading
        /\ moved' = Moved("teleport", {l.new_cell, l.current_cell}, l,
                          NoCell, NoCell, FALSE, FALSE, TRUE)
        /\ tick' = tick + 1
        /\ UNCHANGED <<cell_map, rayVars, fanVars>>

\* lines 84-87 when the side entered has no link: portal_transform is called
\* outside its contract, and either raises or hands its arguments back
MoveTeleportUnlinked(keys, shift) ==
    LET l == Locals(keys, shift)
    IN  /\ Running
        /\ l.combo # {}
        /\ EntersPortal(cell_map, l.current_cell, l.new_cell)
        /\ ~Linked(cell_map, l.new_position, facing)
        /\ \/ /\ position' = position
              /\ moved' = Moved("crashed", {l.new_cell, l.current_cell}, l,
                                NoCell, NoCell, FALSE, FALSE, FALSE)
           \/ /\ position' = KeepInBounds(l.new_position, Radius)
              /\ moved' = Moved("teleport", {l.new_cell, l.current_cell}, l,
                                NoCell, NoCell, FALSE, FALSE, FALSE)
        /\ tick' = tick + 1
        /\ UNCHANGED <<cell_map, facing, rayVars, fanVars>>

\* the X-only and the Y-only move: lines 89-97
MoveAxes(keys, shift) ==
    LET l == Locals(keys, shift)
        new_x == l.new_position[1]
        new_y == l.new_position[2]
        new_x_cell == <<CellIndex(new_x), CellIndex(position[2])>>
        x_ok == ~Truthy(get_cell(cell_map, new_x_cell))
        x_after == IF x_ok THEN new_x ELSE position[1]
        y_cell == new_y_cell(x_after, position[1], new_y)
        y_ok == ~Truthy(get_cell(cell_map, y_cell))
        y_after == IF y_ok THEN new_y ELSE position[2]
    IN  /\ Running
        /\ l.combo # {}
        /\ ~EntersPortal(cell_map, l.current_cell, l.new_cell)
        /\ position' = KeepInBounds(<<x_after, y_after>>, Radius)
        /\ moved' = Moved("axes", {l.new_cell, l.current_cell, new_x_cell, y_cell},
                          l, new_x_cell, y_cell, x_ok, y_ok, FALSE)
        /\ tick' = tick + 1
        /\ UNCHANGED <<cell_map, facing, rayVars, fanVars>>

MoveNext ==
    \E keys \in SUBSET Keys, shift \in BOOLEAN :
        \/ MoveNone(keys)
        \/ MoveTeleport(keys, shift)
        \/ MoveTeleportUnlinked(keys, shift)
        \/ MoveAxes(keys, shift)


----------------------------------------------------------------------------
(* Raycaster *)

\* angles are fixed-point degrees
AngleScale == 1000
FullTurn == 360 * AngleScale

\* statistics.median of the ascending sequence of angles
Median(angles) ==
    LET n == Len(angles)
    IN  IF n % 2 = 1 THEN angles[(n + 1) \div 2]
        ELSE RoundDiv(angles[n \div 2] + angles[n \div 2 + 1], 2)

distribute_angles(fov_, ray_count_, center) ==
    LET interval == IF ray_count_ > 1
                    THEN RoundDiv(fov_ * AngleScale, ray_count_ - 1)
                    ELSE AngleScale
        angles == [i \in 1..ray_count_ |-> (i - 1) * interval]
        median == Median(angles)
    IN  [i \in 1..ray_count_ |->
            (angles[i] + (center * AngleScale - median)) % FullTurn]

\* the map left as the invocation before filled it
Cleared_not(data) == data

\* self.ray_data.clear(): line 203
Cleared(data) == <<>>

\* self.ray_data[angle] = value
Store(data, angle, value) ==
    [a \in DOMAIN data \cup {angle} |-> IF a = angle THEN value ELSE data[a]]

\* what cast_ray returns is fixed by the heading and the visible distance it
\* is given; an entry also keeps which ray of which invocation stored it
RECURSIVE FillRays(_, _, _, _, _)
FillRays(data, angles, i, visible, call) ==
    IF i > Len(angles) THEN data
    ELSE FillRays(Store(data, angles[i],
                        [heading |-> angles[i], visible |-> visible,
                         ray |-> i, call |-> call]),
                  angles, i + 1, visible, call)

\* the fields fov and the centre angles the fan is cast around
Fovs == {0, 60, 90, 360}
Centers == {0, 45, 350}

cast_rays(angle_center, visible) ==
    /\ calls < MaxCalls
    /\ ray_data' = FillRays(Cleared(ray_data),
                            distribute_angles(fov, ray_count, angle_center),
                            1, visible, calls + 1)
    /\ calls' = calls + 1
    /\ last_call' = [center |-> angle_center, visible |-> visible]
    /\ UNCHANGED <<cell_map, fov, ray_count, rayVars, playerVars>>

FanNext ==
    \E angle_center \in Centers, visible \in 1..MaxFanVisible :
        cast_rays(angle_center, visible)

----------------------------------------------------------------------------
(* The casts checked: every map, a caster standing in an empty cell inside *)
(* the clamp of Player.move, every heading, every visible distance.        *)

StartOffsets == {0, CellUnits \div 2}

InClamp(p) ==
    /\ Radius * PosScale <= p[1] /\ p[1] <= (MapCols * SquareSize - Radius) * PosScale
    /\ Radius * PosScale <= p[2] /\ p[2] <= (MapRows * SquareSize - Radius) * PosScale

StartPositions(m) ==
    {p \in {<<cx * CellUnits + ox, cy * CellUnits + oy>> :
                cx \in 0..(MapCols - 1), cy \in 0..(MapRows - 1),
                ox \in StartOffsets, oy \in StartOffsets} :
        InClamp(p) /\ get_cell(m, split_position(p).cell).kind = "empty"}

PlayerIdle ==
    /\ position = <<0, 0>> /\ facing = <<0, -5>> /\ tick = 0 /\ moved = NoMove

FanIdle ==
    /\ fov = 0 /\ ray_count = 0 /\ ray_data = <<>> /\ calls = 0
    /\ last_call = [center |-> 0, visible |-> 0]

\* CastingRay.__init__, for a caster at start
RayInit ==
    /\ cell_map \in Maps
    /\ direction \in Headings
    /\ visible_distance \in 1..MaxVisible
    /\ start_position \in StartPositions(cell_map)
    /\ end_position = start_position
    /\ total_distance = 0
    /\ segment_distance = 0
    /\ segments = <<>>
    /\ points = <<>>
    /\ pc = "march"
    /\ adjusted_distance = 0
    /\ looked = {}
    /\ event = [kind |-> "init", side |-> "UP", occupied |-> FALSE,
                old_direction |-> direction, old_end |-> start_position,
                old_total |-> 0]
    /\ seen = {}
    /\ PlayerIdle
    /\ FanIdle

Spec == RayInit /\ [][RayNext]_vars

RayIdle ==
    /\ direction = <<5, 0>> /\ visible_distance = 0 /\ total_distance = 0
    /\ segment_distance = 0 /\ segments = <<>> /\ points = <<>>
    /\ start_position = <<0, 0>> /\ end_position = <<0, 0>> /\ pc = "idle"
    /\ adjusted_distance = 0 /\ looked = {} /\ seen = {}
    /\ event = [kind |-> "init", side |-> "UP", occupied |-> FALSE,
                old_direction |-> <<5, 0>>, old_end |-> <<0, 0>>, old_total |-> 0]

\* where the player is put: Player.__init__
PlayerStarts(m) ==
    {p \in {<<cx * CellUnits + o, cy * CellUnits + o>> :
                cx \in {1, 4}, cy \in {0, 3}, o \in StartOffsets} :
        InClamp(p) /\ get_cell(m, split_position(p).cell).kind = "empty"}

PlayerMaps == {"open", "mirrors", "portals"}
PlayerFacings == {<<0, -5>>, <<-5, 0>>, <<-3, -4>>}

MoveInit ==
    /\ cell_map \in PlayerMaps
    /\ position \in PlayerStarts(cell_map)
    /\ facing \in PlayerFacings
    /\ tick = 0
    /\ moved = NoMove
    /\ RayIdle
    /\ FanIdle

MoveSpec == MoveInit /\ [][MoveNext]_vars

\* Raycaster.__init__
FanInit ==
    /\ cell_map \in {"open"}
    /\ fov \in Fovs
    /\ ray_count \in 1..MaxRayCount
    /\ ray_data = <<>>
    /\ calls = 0
    /\ last_call = [center |-> 0, visible |-> 0]
    /\ RayIdle
    /\ PlayerIdle

FanSpec == FanInit /\ [][FanNext]_vars

----------------------------------------------------------------------------
(* Properties of CastingRay.cast, checked under Spec *)

Finished == pc = "done"
Budget == visible_distance * DistScale
LastType == segments[Len(segments)].end_type

\* C1, as claimed: a finished cast has total_distance <= visible_distance,
\* and total_distance = visible_distance if and only if the last segment's
\* end_type is the exhausted marker.
C1_TotalEqualsBudgetIffExhausted ==
    Finished =>
        /\ total_distance <= Budget
        /\ (total_distance = Budget) <=> (LastType = "EXHAUSTED")

\* C1, amended: total_distance never exceeds visible_distance, and a cast
\* that ends exhausted has total_distance = visible_distance; the converse
\* is dropped.
C1_TotalWithinBudget ==
    /\ total_distance <= Budget
    /\ Finished /\ LastType = "EXHAUSTED" => total_distance = Budget

\* a cast that reached a wall after steps summing to exactly the budget
C1_WallAtExactBudget ==
    Finished /\ LastType = "NORMAL" /\ total_distance = Budget
        /\ Len(segments) = 1

\* C2, as claimed: in a finished cast every segment ends where the next one
\* starts, after a mirror and after a portal alike.
C2_SegmentsContiguous ==
    Finished =>
        \A i \in 1..(Len(segments) - 1) :
            segments[i].end_pos = segments[i + 1].start_pos

\* where a ray that entered a portal at p with some heading comes out
PortalExits(m, p) ==
    {VAdd(portal_transform(m, p, d).position,
          Nudge(portal_transform(m, p, d).heading)) :
        d \in {h \in Headings : Linked(m, p, h)}}

\* C2, amended: a segment that is followed by another ends on a mirror or on
\* a portal; after a mirror the next segment starts where it ended; after a
\* portal the next segment starts at the transformed, nudged position, which
\* is another point.
C2_ContiguousExceptAtPortals ==
    \A i \in 1..(Len(segments) - 1) :
        /\ segments[i].end_type \in {"MIRROR", "PORTAL"}
        /\ segments[i].end_type = "MIRROR" =>
                segments[i + 1].start_pos = segments[i].end_pos
        /\ segments[i].end_type = "PORTAL" =>
                /\ segments[i + 1].start_pos # segments[i].end_pos
                /\ segments[i + 1].start_pos
                        \in PortalExits(cell_map, segments[i].end_pos)

\* a finished cast that went through a portal and was reflected by a mirror
C2_ThroughPortalAndMirror ==
    /\ Finished
    /\ \E i \in 1..(Len(segments) - 1) : segments[i].end_type = "PORTAL"
    /\ \E i \in 1..(Len(segments) - 1) : segments[i].end_type = "MIRROR"

\* C3: cast() terminates: no pass of its loops leaves the ray exactly as it
\* found it.  A pass of the shrink loop that finds the shortened step still
\* out of bounds and cannot shorten it further, or a pass of the main loop at
\* a position, heading and distance it has been at before, repeats forever.
C3_EveryPassMakesProgress ==
    /\ ~(/\ pc = "shrink"
         /\ Shrunk(adjusted_distance) = adjusted_distance
         /\ ~SafeInBounds(end_position, direction, Shrunk(adjusted_distance)))
    /\ ~(pc = "march" /\ LoopHead \in seen)

\* C5: a reflection negates exactly one heading component: the orthogonal one
\* (y for a LEFT/RIGHT entry, x for an UP/DOWN entry) when the neighbour on
\* the entered side is occupied, the matching one when it is not; the
\* magnitude of the heading is kept.
C5_ReflectionTable ==
    event.kind = "mirror" =>
        LET old == event.old_direction
            neighbour == VAdd(split_position(event.old_end).cell,
                              ADJACENT_OFFSETS[event.side])
            occupied == get_cell(cell_map, neighbour).kind # "empty"
            flip_x == <<-old[1], old[2]>>
            flip_y == <<old[1], -old[2]>>
        IN  /\ direction = (IF occupied = (event.side \in {"LEFT", "RIGHT"})
                            THEN flip_y ELSE flip_x)
            /\ direction[1] * direction[1] + direction[2] * direction[2]
                    = old[1] * old[1] + old[2] * old[2]
            /\ direction \in {flip_x, flip_y}

\* a mirror was hit with the neighbour on the entered side occupied
C5_ReflectedAtCorner ==
    event.kind = "mirror" /\ event.occupied /\ event.old_direction[1] # 0
        /\ event.old_direction[2] # 0

\* the heading the cast started with: that of its first pass
InitialHeading == (CHOOSE h \in seen : h[3] = 0)[2]
InitialStart == (CHOOSE h \in seen : h[3] = 0)[1]

\* how many cells beyond c, along the axis u, the first block is, if that
\* block is a NORMAL wall and every cell before it is empty; 0 otherwise
RECURSIVE WallAhead(_, _, _)
WallAhead(m, c, u) ==
    LET n == VAdd(c, u)
    IN  IF ~InRange(n) THEN 0
        ELSE IF MapCell(m, n).kind = "NORMAL" THEN 1
        ELSE IF MapCell(m, n).kind # "empty" THEN 0
        ELSE IF WallAhead(m, n, u) = 0 THEN 0
        ELSE 1 + WallAhead(m, n, u)

\* the distance from p to the face of that wall, in distance units
FaceDistance(p, u, k) ==
    LET c == <<p[1] \div CellUnits, p[2] \div CellUnits>>
        along == IF u[1] # 0 THEN 1 ELSE 2
        face == IF u[along] > 0 THEN (c[along] + k) * CellUnits
                ELSE (c[along] - k + 1) * CellUnits
        gap == IF u[along] > 0 THEN face - p[along] ELSE p[along] - face
    IN  (gap * DistScale) \div CellUnits

AxisUnit(dir) == <<dir[1] \div HeadingScale, dir[2] \div HeadingScale>>

\* the cast is one along an axis, through empty cells, at a NORMAL wall
AxisCastAtWall ==
    /\ seen # {}
    /\ InitialHeading \in {<<5, 0>>, <<-5, 0>>, <<0, 5>>, <<0, -5>>}
    /\ WallAhead(cell_map, split_position(InitialStart).cell,
                 AxisUnit(InitialHeading)) > 0

\* n: how far the face of that wall is from where the cast started
WallDistance ==
    FaceDistance(InitialStart, AxisUnit(InitialHeading),
                 WallAhead(cell_map, split_position(InitialStart).cell,
                           AxisUnit(InitialHeading)))

\* C6, as claimed: an axis cast at a NORMAL wall n away, with
\* visible_distance > n, ends with one segment, end_type NORMAL and
\* total_distance = n, in each of the four axis directions.
C6_AxisWallDistanceIsN ==
    Finished /\ AxisCastAtWall /\ Budget > WallDistance =>
        /\ Len(segments) = 1
        /\ segments[1].end_type = "NORMAL"
        /\ total_distance = WallDistance

\* 0.001 for a cast against its axis (-x, -y), 0 for one along it
AgainstAxisExtra ==
    IF InitialHeading[1] < 0 \/ InitialHeading[2] < 0
    THEN DistScale \div 1000 ELSE 0

\* C6, amended: such a cast ends with one segment, end_type NORMAL, and
\* total_distance = n along +x and +y, but n + 0.001 along -x and -y
\* (given visible_distance >= n + 0.001 there).
C6_AxisWallDistanceWithEpsilon ==
    Finished /\ AxisCastAtWall /\ Budget > WallDistance
             /\ Budget >= WallDistance + AgainstAxisExtra =>
        /\ Len(segments) = 1
        /\ segments[1].end_type = "NORMAL"
        /\ segments[1].distance = WallDistance + AgainstAxisExtra
        /\ total_distance = WallDistance + AgainstAxisExtra

\* the written scenario against an axis: wall 3 away, visible distance 5
C6_ThreeAwayAgainstAxis ==
    /\ Finished
    /\ visible_distance = 5
    /\ AxisCastAtWall
    /\ WallDistance = 3 * DistScale
    /\ InitialHeading \in {<<-5, 0>>, <<0, -5>>}

\* C7, as claimed: the pass that handles a reflecting mirror does not
\* advance the ray: at its end end_position and total_distance are what
\* they were and segment_distance is 0.
C7_MirrorPassDoesNotAdvance ==
    event.kind = "mirror" =>
        /\ end_position = event.old_end
        /\ total_distance = event.old_total
        /\ segment_distance = 0

\* C7, amended: the pass that handles a reflecting mirror closes the segment
\* tagged Mirror, starts the next one at the same point, reflects the
\* heading and then takes its step with the reflected heading in the same
\* pass: unless that step ends the cast, the ray has advanced at its end.
C7_MirrorPassTakesStep ==
    event.kind = "mirror" =>
        /\ segments # <<>>
        /\ start_position = event.old_end
        /\ \E i \in 1..Len(segments) :
                /\ segments[i].end_type = "MIRROR"
                /\ segments[i].end_pos = event.old_end
        /\ pc = "march" =>
                /\ total_distance > event.old_total
                /\ segment_distance = total_distance - event.old_total
                /\ end_position # event.old_end
        /\ pc = "shrink" => total_distance = event.old_total
        /\ pc = "done" => LastType = "EXHAUSTED"

\* a reflecting mirror was handled and the cast goes on
C7_ReflectedAndAdvanced ==
    event.kind = "mirror" /\ pc = "march" /\ total_distance > event.old_total

----------------------------------------------------------------------------
(* Properties of Player.move, checked under MoveSpec *)

\* C4: a portal is traversed only through a linked side: the ray marcher and
\* Player.move apply the portal transform only when the links entry of the
\* side entered is set; otherwise the portal is a normal wall (the ray ends
\* with end_type NORMAL, the player is not teleported).
C4_PortalOnlyThroughLinkedSide ==
    /\ event.kind = "portal" =>
            get_cell(cell_map, split_position(event.old_end).cell)
                .links[event.side] # None
    /\ event.kind = "portal_wall" => Finished /\ LastType = "NORMAL"
    /\ moved.kind \in {"teleport", "crashed"} => moved.linked

\* C8, as claimed: the new x is committed if and only if the cell at
\* (new x, current y) does not block movement, and the new y if and only if
\* the cell at (x before this tick, new y) does not, whatever the X-only
\* move did.
C8_YTestedAtOldX ==
    moved.kind = "axes" =>
        /\ moved.x_ok =
                (get_cell(cell_map, <<moved.new_cell[1], moved.old_cell[2]>>).kind
                    = "empty")
        /\ moved.y_ok =
                (get_cell(cell_map, <<moved.old_cell[1], moved.new_cell[2]>>).kind
                    = "empty")

\* C8, amended: the cell tested for the X-only move is that of
\* (new x, current y); the cell tested for the Y-only move is that of
\* (x after the X-only move, new y): the new column if the X-only move was
\* committed, the old one if not.  Each move is committed if and only if its
\* cell does not block movement.
C8_YTestedAfterXMove ==
    moved.kind = "axes" =>
        /\ moved.x_cell = <<moved.new_cell[1], moved.old_cell[2]>>
        /\ moved.x_ok = (get_cell(cell_map, moved.x_cell).kind = "empty")
        /\ moved.y_cell = <<(IF moved.x_ok THEN moved.new_cell[1]
                             ELSE moved.old_cell[1]), moved.new_cell[2]>>
        /\ moved.y_ok = (get_cell(cell_map, moved.y_cell).kind = "empty")
        /\ InRange(moved.new_cell) =>
                /\ CellIndex(position[1]) =
                        (IF moved.x_ok THEN moved.new_cell[1]
                         ELSE moved.old_cell[1])
                /\ CellIndex(position[2]) =
                        (IF moved.y_ok THEN moved.new_cell[2]
                         ELSE moved.old_cell[2])

\* a diagonal move into another column and another row whose X-only move
\* was committed, where the two candidate cells differ in blocking
C8_XMoveChangedYTest ==
    /\ moved.kind = "axes"
    /\ moved.x_ok
    /\ moved.new_cell[1] # moved.old_cell[1]
    /\ moved.new_cell[2] # moved.old_cell[2]
    /\ ~moved.y_ok
    /\ get_cell(cell_map, <<moved.old_cell[1], moved.new_cell[2]>>).kind
            = "empty"

\* C9: every cell the core hands to get_cell lies on the map: the cells of
\* the ray marcher's passes and the current, destination and per-axis cells
\* of Player.move.
C9_LookupsOnTheMap ==
    /\ \A c \in looked : InRange(c)
    /\ \A c \in moved.cells : InRange(c)

----------------------------------------------------------------------------
(* Properties of Raycaster.cast_rays, checked under FanSpec *)

Range(f) == {f[i] : i \in DOMAIN f}
LatestAngles == distribute_angles(fov, ray_count, last_call.center)

\* C10, as claimed: after any invocations ray_data holds ray_count entries,
\* one for each ray of the most recent invocation, keyed by its normalized
\* angle, and none of an earlier invocation.
C10_OneEntryPerRay ==
    calls > 0 =>
        /\ Cardinality(DOMAIN ray_data) = ray_count
        /\ DOMAIN ray_data = Range(LatestAngles)
        /\ \A a \in DOMAIN ray_data : ray_data[a].call = calls

\* C10, amended: ray_data holds one entry for each distinct normalized angle
\* of the most recent invocation, each the result of the last ray with that
\* angle, and none of an earlier invocation: ray_count entries if and only if
\* the normalized angles are pairwise distinct, fewer otherwise.
C10_OneEntryPerDistinctAngle ==
    calls > 0 =>
        /\ DOMAIN ray_data = Range(LatestAngles)
        /\ \A a \in DOMAIN ray_data :
                /\ ray_data[a].call = calls
                /\ ray_data[a].visible = last_call.visible
                /\ ray_data[a].heading = a
                /\ LatestAngles[ray_data[a].ray] = a
                /\ \A i \in 1..ray_count :
                        LatestAngles[i] = a => i <= ray_data[a].ray
        /\ Cardinality(DOMAIN ray_data) <= ray_count
        /\ (Cardinality(DOMAIN ray_data) = ray_count) <=>
                (\A i, j \in 1..ray_count :
                    LatestAngles[i] = LatestAngles[j] => i = j)

\* a second invocation around another centre whose first and last ray share
\* their normalized angle
C10_FullTurnFanRecast ==
    /\ calls = 2
    /\ fov = 360
    /\ ray_count > 2
    /\ Cardinality(DOMAIN ray_data) = ray_count - 1
    /\ last_call.center # 0

====
